---- MODULE Spec2Model ----
(***************************************************************************)
(* Model of the loki log-shipping client (src/client.go): the batching     *)
(* worker clientImpl.run, the dispatcher clientImpl.send, the lifecycle    *)
(* calls Log / Flush / Shutdown made by concurrent producer goroutines,    *)
(* the ticker that drives the staleness dispatch, and the canonical       *)
(* label-set key labelsMapToString.                                        *)
(*                                                                         *)
(* A string is a sequence of one-character strings; a label map is a       *)
(* function from key strings to value strings.                             *)
(***************************************************************************)
EXTENDS Integers, Sequences, FiniteSets, TLC

\* ------------------------------------------------------------------ bounds
MaxLogs == 2
MaxBatchSize == 2
MaxBatchWait == 2
ErrCallsMod == 2
MaxDispatch == 4
MaxLiveLogs == 3

\* time.Second, in the model's time unit (half a second)
Second == 2
\* the BatchSize NewClient falls back to
DefaultBatchSize == 5

\* ----------------------------------------------------------------- strings
\* The characters the model uses, in byte order.
Alphabet == << " ", "\"", ",", "1", "2", "=", "\\", "a", "b", "e", "p", "{", "}" >>

Ord(ch) == CHOOSE i \in 1..Len(Alphabet) : Alphabet[i] = ch

\* Byte-wise lexicographic order on strings, as slices.Sort orders []string.
RECURSIVE StrLess(_, _)
StrLess(s, t) ==
    IF t = <<>> THEN FALSE
    ELSE IF s = <<>> THEN TRUE
    ELSE IF Head(s) = Head(t) THEN StrLess(Tail(s), Tail(t))
    ELSE Ord(Head(s)) < Ord(Head(t))

\* slices.Sort(lstrs): the keys of a set in ascending order.
RECURSIVE SortStrings(_)
SortStrings(S) ==
    IF S = {} THEN <<>>
    ELSE LET m == CHOOSE x \in S : \A y \in S \ {x} : StrLess(x, y)
         IN  <<m>> \o SortStrings(S \ {m})

\* strconv.Quote(s): s in double quotes, with the quote and the backslash escaped.
RECURSIVE QuoteBody(_)
QuoteBody(s) ==
    IF s = <<>> THEN <<>>
    ELSE (IF Head(s) \in {"\"", "\\"} THEN <<"\\", Head(s)>> ELSE <<Head(s)>>)
         \o QuoteBody(Tail(s))

Quote(s) == <<"\"">> \o QuoteBody(s) \o <<"\"">>

RECURSIVE WriteLabels(_, _, _)
WriteLabels(ls, lstrs, i) ==
    IF i > Len(lstrs) THEN <<>>
    ELSE (IF i > 1 THEN <<",", " ">> ELSE <<>>)
         \o lstrs[i] \o <<"=">> \o Quote(ls[lstrs[i]])
         \o WriteLabels(ls, lstrs, i + 1)

\* labelsMapToString: `{k1="v1", k2="v2"}` with the keys sorted.
labelsMapToString(ls) ==
    <<"{">> \o WriteLabels(ls, SortStrings(DOMAIN ls), 1) \o <<"}">>

\* The label maps producers pass to Log.
MapA1 == [k \in {<<"a">>} |-> <<"1">>]
MapA2 == [k \in {<<"a">>} |-> <<"2">>]
LabelMaps == {MapA1, MapA2}

\* Label maps whose keys are not restricted to label-name characters: two labels
\* a and b, and the single label named `a="1", b`.
MapAB == [k \in {<<"a">>, <<"b">>} |-> IF k = <<"a">> THEN <<"1">> ELSE <<"2">>]
MapQ == [k \in {<<"a", "=", "\"", "1", "\"", ",", " ", "b">>} |-> <<"2">>]
CanonMaps == {MapA1, MapAB, MapQ}

\* ClientOptions.DefaultLabels as configured by the caller.
DefaultLabels == [k \in {<<"e">>} |-> <<"p">>]

\* ------------------------------------------------------------------- state
VARIABLES
    maxBatchSize,   \* c.maxBatchSize
    maxBatchWait,   \* c.maxBatchWait
    errCallback,    \* c.errCallback is not nil
    closed,         \* c.closed
    quitClosed,     \* close(c.quit) has happened (c.quit is unbuffered)
    flushClosed,    \* close(c.flush) has happened (c.flush is unbuffered)
    entries,        \* the values buffered in c.entries (capacity 1)
    entriesClosed,  \* close(c.entries) has happened
    waitGroup,      \* c.waitGroup's counter
    wpc,            \* where the worker goroutine is in run()
    b,              \* run's local batch: label string -> entries
    err,            \* run's local err is not nil
    sendSite,       \* which c.send call of run is in flight
    tickPending,    \* a tick is waiting in wait.C
    timer,          \* time since the ticker was started, reset or fired
    bufAge,         \* time since b became non-empty (saturating)
    dispatched,     \* the transport requests issued so far, in order
    errCalls,       \* number of error-callback calls, modulo ErrCallsMod
    ppc,            \* where each producer goroutine is
    pstream,        \* the push.Stream a producer's Log is sending
    ctxDone,        \* the deadline of the producer's Shutdown context has elapsed
    nlog,           \* number of Log calls made so far
    accepted,       \* the entries whose Log call put them into c.entries
    fault,          \* the panic that ended the process, or "none"
    classifier,     \* which NewHandler of package lokislog built the handlers
    heap,           \* the backing arrays of the labelBuilder.group slices
    handlers,       \* the LokiHandler values derived so far, in order of creation
    logged          \* the client.Log call of Handle, when Handle was the last step

vars == << maxBatchSize, maxBatchWait, errCallback, closed, quitClosed, flushClosed,
           entries, entriesClosed, waitGroup, wpc, b, err, sendSite, tickPending,
           timer, bufAge, dispatched, errCalls, ppc, pstream, ctxDone,
           nlog, accepted, fault, classifier, heap, handlers, logged >>

cfgVars == << maxBatchSize, maxBatchWait, errCallback >>
chanVars == << quitClosed, flushClosed, entries, entriesClosed >>
workerVars == << wpc, b, err, sendSite, dispatched, errCalls, waitGroup >>
tickerVars == << tickPending, timer, bufAge >>
prodVars == << ppc, pstream, ctxDone, nlog, accepted >>
slogVars == << classifier, heap, handlers, logged >>

Producers == {1, 2}

\* make(batch, c.maxBatchSize)
EmptyBatch == [l \in {} |-> <<>>]

\* The zero push.Stream a receive from the closed, drained c.entries yields.
ZeroStream == [Labels |-> <<>>, Entries |-> <<>>]

NoStream == [Labels |-> <<>>, Entries |-> <<>>]

Min(x, y) == IF x < y THEN x ELSE y

\* ------------------------------------------------------------ slog handler
\* The handlers of package lokislog (src/slog/handler.go).  The file holds two
\* NewHandler functions: one whose classifier is a LabelHandler (default
\* separator "_"), one whose classifier is a MetadataHandler (default separator
\* "."); classifier says which of them built the handlers.  Keys and group names
\* are strings; a slog.Value is given by its rendered text.
MaxHandlers == 7
MaxAttrCalls == 1
MaxLive == 2

\* the value length above which the default MetadataHandler answers metadata
MaxValueLen == 1024

Classifiers == {"LabelHandler", "MetadataHandler"}

\* strings.Repeat(text, count) as a rendered slog.Value
Repeat(text, count) == [text |-> text, count |-> count]

\* len(attr.Value.String())
StringLen(v) == Len(v.text) * v.count

\* slog.String(key, value) and the other leaf constructors
String(key, v) == [Key |-> key, Kind |-> "String", Value |-> v, Group |-> <<>>]

\* slog.Group(key, attrs...)
Group(key, attrs) == [Key |-> key, Kind |-> "Group", Value |-> Repeat("", 0), Group |-> attrs]

\* A []string is a window (off, len, cap) on a backing array of the heap; the
\* nil slice has no array.
NilSlice == [arr |-> 0, off |-> 0, len |-> 0, cap |-> 0]

SliceElems(hp, s) == [i \in 1..s.len |-> hp[s.arr][s.off + i]]

\* groups[1:]
SliceFrom1(s) == [s EXCEPT !.off = s.off + 1, !.len = s.len - 1, !.cap = s.cap - 1]

\* The capacity the runtime gives a grown slice of strings (below 256 elements).
GrowCap(oldCap, needed) == IF needed > 2 * oldCap THEN needed ELSE 2 * oldCap

\* append(s, x): written in place behind s when the backing array has room,
\* into a newly allocated array otherwise.
append(hp, s, x) ==
    IF s.len < s.cap
    THEN [heap |-> [hp EXCEPT ![s.arr][s.off + s.len + 1] = x],
          slice |-> [s EXCEPT !.len = s.len + 1]]
    ELSE LET c == GrowCap(s.cap, s.len + 1)
             old == SliceElems(hp, s)
             arr == [i \in 1..c |-> IF i <= s.len THEN old[i]
                                    ELSE IF i = s.len + 1 THEN x ELSE ""]
         IN  [heap |-> Append(hp, arr),
              slice |-> [arr |-> Len(hp) + 1, off |-> 0, len |-> s.len + 1, cap |-> c]]

\* What remains of the heap hp2 when the arrays allocated since hp are garbage:
\* the writes into the arrays that already existed.
KeepWrites(hp, hp2) == SubSeq(hp2, 1, Len(hp))

\* strings.Join(elems, sep)
RECURSIVE Join(_, _)
Join(elems, sep) ==
    IF Len(elems) = 0 THEN ""
    ELSE IF Len(elems) = 1 THEN elems[1]
    ELSE elems[1] \o sep \o Join(Tail(elems), sep)

EmptyMap == << >>

\* m[k] = v
Put(m, k, v) == [x \in DOMAIN m \cup {k} |-> IF x = k THEN v ELSE m[x]]

\* for k, v := range over { m[k] = v }
Merge(m, over) ==
    [k \in DOMAIN m \cup DOMAIN over |-> IF k \in DOMAIN over THEN over[k] ELSE m[k]]

\* copyMap: a new map with the same pairs (maps are values here, so no two
\* builders ever share one).
copyMap(data) == [key \in DOMAIN data |-> data[key]]

newLabelBuilder(groupSplitter) ==
    [group |-> NilSlice, groupSplitter |-> groupSplitter,
     labels |-> EmptyMap, metadata |-> EmptyMap]

\* labelBuilder.copy: the maps are copied, the group slice is not.
copy(lb) == [lb EXCEPT !.labels = copyMap(lb.labels), !.metadata = copyMap(lb.metadata)]

\* labelBuilder.withGroup
withGroup(hp, lb, name) ==
    LET r == append(hp, copy(lb).group, name)
    IN  [heap |-> r.heap, lb |-> [copy(lb) EXCEPT !.group = r.slice]]

\* labelBuilder.build
build(lb, label, metadata) ==
    [labels |-> Merge(label, lb.labels), metadata |-> Merge(metadata, lb.metadata)]

\* The LabelHandler NewHandler installs when none is configured.
DefaultLabelHandler(groups, attr) == [isLabel |-> FALSE, keyOverwrite |-> ""]

\* The MetadataHandler NewHandler installs when none is configured.
DefaultMetadataHandler(hp, groups, attr) ==
    IF StringLen(attr.Value) > MaxValueLen
    THEN [metaGroup |-> groups, metaAttr |-> attr, isMetadata |-> TRUE]
    ELSE IF groups.len > 0 /\ hp[groups.arr][groups.off + 1] = "static_metadata"
    THEN [metaGroup |-> SliceFrom1(groups), metaAttr |-> attr, isMetadata |-> TRUE]
    ELSE [metaGroup |-> NilSlice, metaAttr |-> String("", Repeat("", 0)), isMetadata |-> FALSE]

\* strings.Join(append(group, a.Key), b.groupSplitter): the key, and the heap
\* after the append (the appended slice itself is dropped).
JoinKey(hp, group, key, sep) ==
    LET r == append(hp, group, key)
    IN  [heap |-> KeepWrites(hp, r.heap), key |-> Join(SliceElems(r.heap, r.slice), sep)]

\* withAttrs, default case of the switch, with a LabelHandler
withLeafLabelHandler(hp, lb, a) ==
    LET k == JoinKey(hp, lb.group, a.Key, lb.groupSplitter)
        r == DefaultLabelHandler(lb.group, a)
    IN  [heap |-> k.heap,
         lb |-> IF r.isLabel
                THEN [lb EXCEPT !.labels =
                        Put(@, IF r.keyOverwrite # "" THEN r.keyOverwrite ELSE k.key, a.Value)]
                ELSE [lb EXCEPT !.metadata = Put(@, k.key, a.Value)]]

\* withAttrs, default case of the switch, with a MetadataHandler
withLeafMetadataHandler(hp, lb, a) ==
    LET r == DefaultMetadataHandler(hp, lb.group, a)
        k == IF r.isMetadata
             THEN JoinKey(hp, r.metaGroup, a.Key, lb.groupSplitter)
             ELSE JoinKey(hp, lb.group, a.Key, lb.groupSplitter)
    IN  [heap |-> k.heap,
         lb |-> IF r.isMetadata
                THEN [lb EXCEPT !.metadata = Put(@, k.key, r.metaAttr.Value)]
                ELSE [lb EXCEPT !.labels = Put(@, k.key, a.Value)]]

\* The loop of withAttrs over attrs, on the copy lb.
RECURSIVE withAttrsLoop(_, _, _, _)
withAttrsLoop(cl, hp, lb, attrs) ==
    IF attrs = <<>> THEN [heap |-> hp, lb |-> lb]
    ELSE LET a == Head(attrs)
             r == IF a.Kind = "Group"
                  THEN LET g == withGroup(hp, lb, a.Key)
                           n == withAttrsLoop(cl, g.heap, copy(g.lb), a.Group)
                           m == build(n.lb, lb.labels, lb.metadata)
                       IN  [heap |-> KeepWrites(hp, n.heap),
                            lb |-> [lb EXCEPT !.labels = m.labels, !.metadata = m.metadata]]
                  ELSE IF cl = "LabelHandler" THEN withLeafLabelHandler(hp, lb, a)
                  ELSE withLeafMetadataHandler(hp, lb, a)
         IN  withAttrsLoop(cl, r.heap, r.lb, Tail(attrs))

\* labelBuilder.withAttrs
withAttrs(cl, hp, lb, attrs) == withAttrsLoop(cl, hp, copy(lb), attrs)

\* The separator NewHandler falls back to.
DefaultGroupSplitter(cl) == IF cl = "LabelHandler" THEN "_" ELSE "."

\* NewHandler with Level, LevelKey, GroupSplitter and the classifier left at
\* their zero values.  by and path are not fields of LokiHandler: by is the call
\* that made the handler, path the names given to WithGroup on the way to it.
NewHandler(cl, oDefaultAttrs) ==
    [levelKey |-> "level",
     lb |-> withAttrs(cl, <<>>, newLabelBuilder(DefaultGroupSplitter(cl)), oDefaultAttrs).lb,
     by |-> "NewHandler",
     path |-> <<>>]

\* The inputs of the handler calls.
GroupNames == {"x", "y"}
Short == Repeat(".", MaxValueLen)
Long == Repeat(".", MaxValueLen + 1)
AttrFoo == <<String("foo", Short)>>
AttrFooLong == <<String("foo", Long)>>
AttrStaticF == <<Group("static_metadata", <<String("f", Repeat("1", 1))>>)>>
AttrStaticFLong == <<Group("static_metadata", <<String("f", Long)>>)>>
AttrLists == {AttrFoo, AttrFooLong, AttrStaticF, AttrStaticFLong}
DefaultAttrLists == {<<String("a", Repeat("b", 1))>>}
Records ==
    {[Level |-> "ERROR",
      Attrs |-> <<String("true", Repeat("true", 1)),
                  Group("fizz", <<String("buzz", Repeat("buzz", 1))>>)>>]}

NoCall == [called |-> FALSE, labels |-> EmptyMap, metadata |-> EmptyMap]

\* No handler has been built on the client.
NoHandler ==
    /\ classifier = "LabelHandler"
    /\ heap = <<>>
    /\ handlers = <<>>
    /\ logged = NoCall

\* ------------------------------------------------------------- construction
\* The options NewClient is called with: BatchWait, BatchSize, ErrorCallback set or nil.
BatchWaits == {0, MaxBatchWait}
BatchSizes == {0, MaxBatchSize}

\* NewClient: zero BatchWait and BatchSize fall back to the defaults; the channels
\* are open and empty, the worker is started with waitGroup at 1.
NewClient(oBatchWait, oBatchSize, oErrorCallback) ==
    /\ maxBatchWait = (IF oBatchWait = 0 THEN Second ELSE oBatchWait)
    /\ maxBatchSize = (IF oBatchSize = 0 THEN DefaultBatchSize ELSE oBatchSize)
    /\ errCallback = oErrorCallback
    /\ closed = FALSE
    /\ quitClosed = FALSE
    /\ flushClosed = FALSE
    /\ entries = <<>>
    /\ entriesClosed = FALSE
    /\ waitGroup = 1

\* The worker has just been started and no caller has done anything yet.
Started ==
    /\ wpc = "select"
    /\ b = EmptyBatch
    /\ err = FALSE
    /\ sendSite = "none"
    /\ tickPending = FALSE
    /\ timer = 0
    /\ bufAge = 0
    /\ dispatched = <<>>
    /\ errCalls = 0
    /\ ppc = [p \in Producers |-> "idle"]
    /\ pstream = [p \in Producers |-> NoStream]
    /\ ctxDone = [p \in Producers |-> FALSE]
    /\ nlog = 0
    /\ accepted = {}
    /\ fault = "none"

Init ==
    /\ \E w \in BatchWaits, n \in BatchSizes, cb \in BOOLEAN : NewClient(w, n, cb)
    /\ Started
    /\ NoHandler

\* An unrecovered panic in any goroutine ends the process: nothing of its state
\* remains but the reason.
Panic(reason) ==
    /\ fault' = reason
    /\ closed' = TRUE
    /\ quitClosed' = TRUE
    /\ flushClosed' = TRUE
    /\ entries' = <<>>
    /\ entriesClosed' = TRUE
    /\ waitGroup' = 0
    /\ wpc' = "dead"
    /\ b' = EmptyBatch
    /\ err' = FALSE
    /\ sendSite' = "none"
    /\ tickPending' = FALSE
    /\ timer' = 0
    /\ bufAge' = 0
    /\ dispatched' = <<>>
    /\ errCalls' = 0
    /\ ppc' = [p \in Producers |-> "dead"]
    /\ pstream' = [p \in Producers |-> NoStream]
    /\ ctxDone' = [p \in Producers |-> FALSE]
    /\ nlog' = 0
    /\ accepted' = {}
    /\ UNCHANGED << cfgVars, slogVars >>

\* ------------------------------------------------------------------ worker
\* AppendEntry putting the new entries in front of the unit instead of behind it.
AppendEntryInFront(bb, entry) ==
    [l \in DOMAIN bb \cup {entry.Labels} |->
        IF l = entry.Labels
        THEN entry.Entries \o (IF l \in DOMAIN bb THEN bb[l] ELSE <<>>)
        ELSE bb[l]]

\* AppendEntry assigning the new entries to the unit instead of appending them.
AppendEntryOverwrite(bb, entry) ==
    [l \in DOMAIN bb \cup {entry.Labels} |->
        IF l = entry.Labels THEN entry.Entries ELSE bb[l]]

\* b[entry.Labels] = append(b[entry.Labels], entry.Entries...)
AppendEntry(bb, entry) ==
    [l \in DOMAIN bb \cup {entry.Labels} |->
        IF l = entry.Labels
        THEN (IF l \in DOMAIN bb THEN bb[l] ELSE <<>>) \o entry.Entries
        ELSE bb[l]]

\* SizeReached with > in place of >=.
SizeReachedLate(bb) == Cardinality(DOMAIN bb) > maxBatchSize

\* len(b) >= int(c.maxBatchSize)
SizeReached(bb) == Cardinality(DOMAIN bb) >= maxBatchSize

\* TickSends dispatching only from the second group on.
TickSendsLate(bb) == Cardinality(DOMAIN bb) > 1

\* The tick case's test len(b) > 0.
TickSends(bb) == Cardinality(DOMAIN bb) > 0

\* The push request c.send builds from a batch: one stream per label string.
PushRequest(batch) == {[Labels |-> l, Entries |-> batch[l]] : l \in DOMAIN batch}

\* c.send up to and including the call of c.client.Do: the request is issued.
SendBegin(batch, site) ==
    /\ Len(dispatched) < MaxDispatch
    /\ dispatched' = Append(dispatched, [Streams |-> PushRequest(batch), site |-> site])
    /\ sendSite' = site
    /\ wpc' = "send"

\* wait.Reset(c.maxBatchWait): the period restarts; a tick already in wait.C is
\* kept or dropped, depending on the Go release.
Reset ==
    /\ timer' = 0
    /\ \E keep \in BOOLEAN : tickPending' = (tickPending /\ keep)

\* The end of a loop iteration: if err != nil && c.errCallback != nil { c.errCallback(err) }
LoopEnd(e) ==
    errCalls' = (IF e /\ errCallback THEN (errCalls + 1) % ErrCallsMod ELSE errCalls)

\* case <-c.quit: break LOOP.  The value comes from a Shutdown caller blocked in
\* its select (a rendezvous) or from the closed channel.
WorkerRecvQuit ==
    /\ fault = "none"
    /\ wpc = "select"
    /\ \/ /\ quitClosed
          /\ UNCHANGED ppc
       \/ /\ ~quitClosed
          /\ \E p \in Producers :
                /\ ppc[p] = "sd_select"
                /\ ppc' = [ppc EXCEPT ![p] = "sd_close_quit"]
    /\ wpc' = "drain"
    /\ UNCHANGED << cfgVars, slogVars, closed, chanVars, waitGroup, b, err, sendSite, tickerVars,
                    dispatched, errCalls, pstream, ctxDone, nlog, accepted, fault >>

\* case entry := <-c.entries: append; dispatch when the size threshold is reached.
WorkerRecvEntry ==
    /\ fault = "none"
    /\ wpc = "select"
    /\ \/ entries # <<>>
       \/ entries = <<>> /\ entriesClosed
    /\ LET entry == IF entries # <<>> THEN Head(entries) ELSE ZeroStream
           nb == AppendEntry(b, entry)
       IN  /\ entries' = (IF entries # <<>> THEN Tail(entries) ELSE entries)
           /\ b' = nb
           /\ IF SizeReached(nb)
              THEN /\ SendBegin(nb, "size")
                   /\ UNCHANGED errCalls
              ELSE /\ LoopEnd(err)
                   /\ UNCHANGED << wpc, sendSite, dispatched >>
    /\ UNCHANGED << cfgVars, slogVars, closed, quitClosed, flushClosed, entriesClosed, waitGroup,
                    err, tickerVars, prodVars, fault >>

\* case <-wait.C: dispatch if the batch is not empty; reset the ticker.
WorkerRecvTick ==
    /\ fault = "none"
    /\ wpc = "select"
    /\ tickPending
    /\ IF TickSends(b)
       THEN /\ SendBegin(b, "tick")
            /\ tickPending' = FALSE
            /\ UNCHANGED << timer, errCalls >>
       ELSE /\ timer' = 0
            /\ tickPending' = FALSE
            /\ LoopEnd(err)
            /\ UNCHANGED << wpc, sendSite, dispatched >>
    /\ UNCHANGED << cfgVars, slogVars, closed, chanVars, waitGroup, b, err, bufAge, prodVars, fault >>

\* AfterSend keeping the batch of a failed dispatch for the next one.
AfterSendRetry(bb, e) == IF e THEN bb ELSE EmptyBatch

\* What run does with b once c.send has returned e: b = make(batch, c.maxBatchSize).
AfterSend(bb, e) == EmptyBatch

\* SendReturnLoop leaving the loop once a dispatch has returned.
SendReturnLoopStops ==
    /\ fault = "none"
    /\ wpc = "send"
    /\ sendSite \in {"size", "tick"}
    /\ \E ok \in BOOLEAN :
          LET e == ~ok
          IN  /\ err' = e
              /\ b' = EmptyBatch
              /\ LoopEnd(e)
    /\ bufAge' = 0
    /\ Reset
    /\ wpc' = "drain"
    /\ sendSite' = "none"
    /\ UNCHANGED << cfgVars, slogVars, closed, chanVars, waitGroup, dispatched, prodVars, fault >>

\* c.send returns in the loop (ok: status 204; otherwise a transport error or another
\* status): err is assigned, b is replaced, the ticker reset, the callback called.
SendReturnLoop ==
    /\ fault = "none"
    /\ wpc = "send"
    /\ sendSite \in {"size", "tick"}
    /\ \E ok \in BOOLEAN :
          LET e == ~ok
          IN  /\ err' = e
              /\ b' = AfterSend(b, e)
              /\ LoopEnd(e)
    /\ bufAge' = 0
    /\ Reset
    /\ wpc' = "select"
    /\ sendSite' = "none"
    /\ UNCHANGED << cfgVars, slogVars, closed, chanVars, waitGroup, dispatched, prodVars, fault >>

\* for entry := range c.entries { append }: blocks while c.entries is open and empty,
\* ends when it is closed and empty; then err = c.send(b).
WorkerDrain ==
    /\ fault = "none"
    /\ wpc = "drain"
    /\ \/ /\ entries # <<>>
          /\ b' = AppendEntry(b, Head(entries))
          /\ entries' = Tail(entries)
          /\ UNCHANGED << wpc, sendSite, dispatched >>
       \/ /\ entries = <<>>
          /\ entriesClosed
          /\ dispatched' = Append(dispatched, [Streams |-> PushRequest(b), site |-> "final"])
          /\ sendSite' = "final"
          /\ wpc' = "send"
          /\ UNCHANGED << b, entries >>
    /\ UNCHANGED << cfgVars, slogVars, closed, quitClosed, flushClosed, entriesClosed, waitGroup,
                    err, tickerVars, errCalls, prodVars, fault >>

\* The final c.send returns: if err != nil { c.errCallback(err) }; c.waitGroup.Done().
\* Calling the nil c.errCallback panics.
SendReturnFinal ==
    /\ fault = "none"
    /\ wpc = "send"
    /\ sendSite = "final"
    /\ \E ok \in BOOLEAN :
          LET e == ~ok
          IN  IF e /\ ~errCallback
              THEN Panic("run: call of nil errCallback")
              ELSE /\ err' = e
                   /\ LoopEnd(e)
                   /\ waitGroup' = waitGroup - 1
                   /\ wpc' = "done"
                   /\ sendSite' = "none"
                   /\ UNCHANGED << cfgVars, slogVars, closed, chanVars, b, tickerVars, dispatched,
                                   prodVars, fault >>

\* ------------------------------------------------------------------- ticker
\* The worker has something to do right now: time passes only while it is blocked
\* in its select, blocked in the drain loop's receive, or inside the transport call.
WorkerReady ==
    \/ /\ wpc = "select"
       /\ \/ tickPending
          \/ entries # <<>>
          \/ entriesClosed
          \/ quitClosed
          \/ \E p \in Producers : ppc[p] = "sd_select"
    \/ /\ wpc = "drain"
       /\ (entries # <<>> \/ entriesClosed)

\* The ticker delivers a tick into wait.C (capacity 1), at a moment the model does
\* not time.
TickFires ==
    /\ fault = "none"
    /\ wpc \in {"select", "send"}
    /\ ~tickPending
    /\ tickPending' = TRUE
    /\ UNCHANGED << cfgVars, slogVars, closed, chanVars, workerVars, timer, bufAge, prodVars, fault >>

\* One unit of time passes, which it does only while the worker has nothing to do;
\* the ticker fires every c.maxBatchWait (a tick is dropped when one is already
\* waiting in wait.C), and the buffered entries grow older.
TimeAdvance ==
    /\ fault = "none"
    /\ wpc \in {"select", "send"}
    /\ ~WorkerReady
    /\ timer' = (timer + 1) % maxBatchWait
    /\ tickPending' = (tickPending \/ timer + 1 = maxBatchWait)
    /\ bufAge' = (IF b = EmptyBatch THEN 0 ELSE Min(bufAge + 1, maxBatchWait + 1))
    /\ UNCHANGED << cfgVars, slogVars, closed, chanVars, workerVars, prodVars, fault >>

\* --------------------------------------------------------------- producers
\* What the unsynchronised read of c.closed in Log can observe: while another
\* goroutine is inside Shutdown, which wrote it, the old value may still be read.
ClosedReads(p) ==
    IF closed /\ \E q \in Producers \ {p} : ppc[q] \notin {"idle", "log_send", "flush_select"}
    THEN {TRUE, FALSE}
    ELSE {closed}

\* The stream Log builds for its labels: the canonical label string and one entry.
LogStream(p, ts, lables) ==
    [Labels |-> labelsMapToString(lables),
     Entries |-> << [p |-> p, ts |-> ts, lables |-> lables] >>]

\* Log up to the channel send: if c.closed { return }, else build the stream; at
\* most n calls are made.
LogCallUpTo(p, lables, n) ==
    /\ fault = "none"
    /\ ppc[p] = "idle"
    /\ nlog < n
    /\ \E seen \in ClosedReads(p) :
          IF seen
          THEN UNCHANGED << ppc, pstream, nlog >>
          ELSE /\ nlog' = nlog + 1
               /\ ppc' = [ppc EXCEPT ![p] = "log_send"]
               /\ pstream' = [pstream EXCEPT ![p] = LogStream(p, nlog + 1, lables)]
    /\ UNCHANGED << cfgVars, slogVars, closed, chanVars, workerVars, tickerVars, ctxDone, accepted,
                    fault >>

LogCall(p, lables) == LogCallUpTo(p, lables, MaxLogs)

\* c.entries <- stream: blocks while the buffer is full, panics on a closed channel.
LogSend(p) ==
    /\ fault = "none"
    /\ ppc[p] = "log_send"
    /\ IF entriesClosed
       THEN Panic("Log: send on closed channel")
       ELSE /\ Len(entries) < 1
            /\ entries' = Append(entries, pstream[p])
            /\ accepted' = accepted \cup {pstream[p].Entries[1]}
            /\ ppc' = [ppc EXCEPT ![p] = "idle"]
            /\ pstream' = [pstream EXCEPT ![p] = NoStream]
            /\ UNCHANGED << cfgVars, slogVars, closed, quitClosed, flushClosed, entriesClosed,
                            workerVars, tickerVars, ctxDone, nlog, fault >>

\* Flush is called and reaches its select.
FlushCall(p) ==
    /\ fault = "none"
    /\ ppc[p] = "idle"
    /\ ppc' = [ppc EXCEPT ![p] = "flush_select"]
    /\ UNCHANGED << cfgVars, slogVars, closed, chanVars, workerVars, tickerVars, pstream, ctxDone,
                    nlog, accepted, fault >>

\* Flush's select, case <-ctx.Done(): the deadline elapses and Flush returns.
FlushCtxDone(p) ==
    /\ fault = "none"
    /\ ppc[p] = "flush_select"
    /\ ppc' = [ppc EXCEPT ![p] = "idle"]
    /\ UNCHANGED << cfgVars, slogVars, closed, chanVars, workerVars, tickerVars, pstream, ctxDone,
                    nlog, accepted, fault >>

\* Flush's select, case c.flush <- struct{}{}: run never receives from c.flush, so
\* the send never completes; on the closed channel it panics.
FlushSend(p) ==
    /\ fault = "none"
    /\ ppc[p] = "flush_select"
    /\ flushClosed
    /\ Panic("Flush: send on closed channel")

\* Shutdown: c.closed = true, then the select.
ShutdownCall(p) ==
    /\ fault = "none"
    /\ ppc[p] = "idle"
    /\ closed' = TRUE
    /\ ppc' = [ppc EXCEPT ![p] = "sd_select"]
    /\ ctxDone' = [ctxDone EXCEPT ![p] = FALSE]
    /\ UNCHANGED << cfgVars, slogVars, chanVars, workerVars, tickerVars, pstream, nlog, accepted,
                    fault >>

\* Shutdown's select, case <-ctx.Done(): the deadline elapses before the worker
\* receives from c.quit.  (The send the worker receives is WorkerRecvQuit.)
ShutdownCtxDone(p) ==
    /\ fault = "none"
    /\ ppc[p] = "sd_select"
    /\ ctxDone' = [ctxDone EXCEPT ![p] = TRUE]
    /\ ppc' = [ppc EXCEPT ![p] = "sd_close_quit"]
    /\ UNCHANGED << cfgVars, slogVars, closed, chanVars, workerVars, tickerVars, pstream, nlog,
                    accepted, fault >>

\* Shutdown's select, case c.quit <- struct{}{} on the closed c.quit: panic.
ShutdownSendClosed(p) ==
    /\ fault = "none"
    /\ ppc[p] = "sd_select"
    /\ quitClosed
    /\ Panic("Shutdown: send on closed channel")

\* close(c.quit)
ShutdownCloseQuit(p) ==
    /\ fault = "none"
    /\ ppc[p] = "sd_close_quit"
    /\ IF quitClosed
       THEN Panic("Shutdown: close of closed channel")
       ELSE /\ quitClosed' = TRUE
            /\ ppc' = [ppc EXCEPT ![p] = "sd_close_flush"]
            /\ UNCHANGED << cfgVars, slogVars, closed, flushClosed, entries, entriesClosed, workerVars,
                            tickerVars, pstream, ctxDone, nlog, accepted, fault >>

\* close(c.flush)
ShutdownCloseFlush(p) ==
    /\ fault = "none"
    /\ ppc[p] = "sd_close_flush"
    /\ IF flushClosed
       THEN Panic("Shutdown: close of closed channel")
       ELSE /\ flushClosed' = TRUE
            /\ ppc' = [ppc EXCEPT ![p] = "sd_close_entries"]
            /\ UNCHANGED << cfgVars, slogVars, closed, quitClosed, entries, entriesClosed, workerVars,
                            tickerVars, pstream, ctxDone, nlog, accepted, fault >>

\* close(c.entries)
ShutdownCloseEntries(p) ==
    /\ fault = "none"
    /\ ppc[p] = "sd_close_entries"
    /\ IF entriesClosed
       THEN Panic("Shutdown: close of closed channel")
       ELSE /\ entriesClosed' = TRUE
            /\ ppc' = [ppc EXCEPT ![p] = "sd_wait"]
            /\ UNCHANGED << cfgVars, slogVars, closed, quitClosed, flushClosed, entries, workerVars,
                            tickerVars, pstream, ctxDone, nlog, accepted, fault >>

\* c.waitGroup.Wait() returns once the counter is zero; the context is not consulted.
WaitReturns(p) == waitGroup = 0

\* c.waitGroup.Wait(), and Shutdown returns.
ShutdownWait(p) ==
    /\ fault = "none"
    /\ ppc[p] = "sd_wait"
    /\ WaitReturns(p)
    /\ ppc' = [ppc EXCEPT ![p] = "idle"]
    /\ ctxDone' = [ctxDone EXCEPT ![p] = FALSE]
    /\ UNCHANGED << cfgVars, slogVars, closed, chanVars, workerVars, tickerVars, pstream,
                    nlog, accepted, fault >>

\* ------------------------------------------------------------ specification
Worker ==
    \/ WorkerRecvQuit
    \/ WorkerRecvEntry
    \/ WorkerRecvTick
    \/ SendReturnLoop
    \/ WorkerDrain
    \/ SendReturnFinal

Producer(p) ==
    \/ \E lables \in LabelMaps : LogCall(p, lables)
    \/ LogSend(p)
    \/ FlushCall(p)
    \/ FlushCtxDone(p)
    \/ FlushSend(p)
    \/ ShutdownCall(p)
    \/ ShutdownCtxDone(p)
    \/ ShutdownSendClosed(p)
    \/ ShutdownCloseQuit(p)
    \/ ShutdownCloseFlush(p)
    \/ ShutdownCloseEntries(p)
    \/ ShutdownWait(p)

Next ==
    \/ Worker
    \/ TickFires
    \/ \E p \in Producers : Producer(p)

Spec == Init /\ [][Next]_vars

\* The loop while the client is open, with time measured: entries arrive, the
\* ticker fires every c.maxBatchWait, no Flush and no Shutdown is called.
TimedNext ==
    \/ WorkerRecvEntry
    \/ WorkerRecvTick
    \/ SendReturnLoop
    \/ TimeAdvance
    \/ \E p \in Producers :
          \/ \E lables \in LabelMaps : LogCall(p, lables)
          \/ LogSend(p)

TimedSpec == Init /\ [][TimedNext]_vars

\* The loop while the client is open, fed with the label maps of CanonMaps.
GroupNext ==
    \/ WorkerRecvEntry
    \/ WorkerRecvTick
    \/ SendReturnLoop
    \/ TickFires
    \/ \E p \in Producers :
          \/ \E lables \in CanonMaps : LogCall(p, lables)
          \/ LogSend(p)

GroupSpec == Init /\ [][GroupNext]_vars

\* The loop while the client is open, with up to MaxLiveLogs Log calls, under a
\* fair scheduler: a transport call returns, the worker's select takes an entry
\* that is ready, and a Log blocked on c.entries gets its turn when there is room
\* (blocked senders are served first come, first served).
LiveNext ==
    \/ WorkerRecvEntry
    \/ WorkerRecvTick
    \/ SendReturnLoop
    \/ TickFires
    \/ \E p \in Producers :
          \/ \E lables \in LabelMaps : LogCallUpTo(p, lables, MaxLiveLogs)
          \/ LogSend(p)

LiveSpec ==
    /\ Init
    /\ [][LiveNext]_vars
    /\ WF_vars(WorkerRecvEntry)
    /\ WF_vars(SendReturnLoop)
    /\ \A p \in Producers : SF_vars(LogSend(p))

\* ------------------------------------------------------- handler operations
clientVars == << cfgVars, closed, chanVars, workerVars, tickerVars, prodVars, fault >>

\* The group path a builder reads from its slice.
GroupOf(hp, lb) == SliceElems(hp, lb.group)

\* The handlers the program still holds: the MaxLive it made last.
Live == {i \in 1..Len(handlers) : i > Len(handlers) - MaxLive}

AttrCalls == Cardinality({i \in 1..Len(handlers) : handlers[i].by = "WithAttrs"})

\* LokiHandler.WithGroup on the i-th handler
WithGroup(i, name) ==
    /\ Len(handlers) < MaxHandlers
    /\ LET r == withGroup(heap, handlers[i].lb, name)
       IN  /\ heap' = r.heap
           /\ handlers' = Append(handlers,
                  [handlers[i] EXCEPT !.lb = r.lb, !.by = "WithGroup",
                                      !.path = Append(@, name)])
    /\ logged' = NoCall
    /\ UNCHANGED << classifier, clientVars >>

\* LokiHandler.WithAttrs on the i-th handler
WithAttrs(i, attrs) ==
    /\ Len(handlers) < MaxHandlers
    /\ AttrCalls < MaxAttrCalls
    /\ LET r == withAttrs(classifier, heap, handlers[i].lb, attrs)
       IN  /\ heap' = r.heap
           /\ handlers' = Append(handlers,
                  [handlers[i] EXCEPT !.lb = r.lb, !.by = "WithAttrs"])
    /\ logged' = NoCall
    /\ UNCHANGED << classifier, clientVars >>

\* The builder Handle classifies the record's own attributes with.
RecordBuilder(h) == newLabelBuilder(h.lb.groupSplitter)

\* LokiHandler.Handle on the i-th handler: the accumulated labels and metadata,
\* then the record's attributes, then the level; the result goes to client.Log.
Handle(i, record) ==
    /\ LET h == handlers[i]
           acc == build(h.lb, EmptyMap, EmptyMap)
           r == withAttrs(classifier, heap, RecordBuilder(h), record.Attrs)
           all == build(r.lb, acc.labels, acc.metadata)
       IN  /\ heap' = r.heap
           /\ logged' = [called |-> TRUE,
                         labels |-> Put(all.labels, h.levelKey, Repeat(record.Level, 1)),
                         metadata |-> all.metadata]
    /\ UNCHANGED << classifier, handlers, clientVars >>

SlogInit ==
    /\ NewClient(0, 0, FALSE)
    /\ Started
    /\ \E cl \in Classifiers, oDefaultAttrs \in DefaultAttrLists :
          /\ classifier = cl
          /\ handlers = << NewHandler(cl, oDefaultAttrs) >>
    /\ heap = <<>>
    /\ logged = NoCall

SlogNext ==
    \E i \in Live :
       \/ \E name \in GroupNames : WithGroup(i, name)
       \/ \E attrs \in AttrLists : WithAttrs(i, attrs)
       \/ \E record \in Records : Handle(i, record)

SlogSpec == SlogInit /\ [][SlogNext]_vars

\* ------------------------------------------------------------------ claims
Range(f) == {f[i] : i \in DOMAIN f}

\* The entries one transport request carries.
DispatchEntries(d) == UNION {Range(st.Entries) : st \in d.Streams}

\* The entries passed to any transport request so far.
SentEntries == UNION {DispatchEntries(dispatched[i]) : i \in 1..Len(dispatched)}

\* The places (dispatch, stream, position) at which entry e was sent.
Occurrences(e) ==
    UNION {UNION {{<<i, st.Labels, k>> : k \in {n \in 1..Len(st.Entries) : st.Entries[n] = e}}
                  : st \in dispatched[i].Streams}
           : i \in 1..Len(dispatched)}

\* The dispatch an entry that was sent exactly once was sent in.
DispatchOf(e) == CHOOSE i \in 1..Len(dispatched) : e \in DispatchEntries(dispatched[i])

FinalDispatched == \E i \in 1..Len(dispatched) : dispatched[i].site = "final"

\* C1: once the worker has issued its final dispatch after Shutdown, the entries
\* passed to all dispatches are exactly the entries Log accepted, each exactly once.
C1_ExactlyOnce ==
    FinalDispatched =>
        /\ SentEntries = accepted
        /\ \A e \in accepted : Cardinality(Occurrences(e)) = 1

\* C1 witness: two entries were accepted, a size- or timer-triggered dispatch and the
\* final one happened, the Shutdown deadline elapsed before the worker took the quit
\* signal, and the worker has terminated.
C1_Witness ==
    /\ wpc = "done"
    /\ Cardinality(accepted) = MaxLogs
    /\ \E i \in 1..Len(dispatched) :
          dispatched[i].site \in {"size", "tick"} /\ DispatchEntries(dispatched[i]) # {}
    /\ \E p \in Producers : ppc[p] = "sd_wait" /\ ctxDone[p]

\* C2: a Flush waiting on an open client whose worker is idle in its select with a
\* non-empty buffer can be accepted: a step exists in which that Flush returns and
\* the buffer is dispatched.
C2_FlushAccepted ==
    \A p \in Producers :
        (ppc[p] = "flush_select" /\ wpc = "select" /\ ~closed /\ b # EmptyBatch)
            => ENABLED (Next /\ ppc'[p] = "idle" /\ Len(dispatched') = Len(dispatched) + 1)

\* C3: no Log call ever panics with a send on the closed ingress channel.
C3_LogNeverFaults == fault # "Log: send on closed channel"

\* C4: every transport request carries at least one entry.
C4_NoEmptyRequest ==
    \A i \in 1..Len(dispatched) : DispatchEntries(dispatched[i]) # {}

\* C5: whenever the worker is back at its select the live map holds fewer than
\* maxBatchSize label strings, and no size- or timer-triggered dispatch carries
\* more than maxBatchSize batch units.
C5_SizeBound ==
    /\ wpc = "select" => Cardinality(DOMAIN b) < maxBatchSize
    /\ \A i \in 1..Len(dispatched) :
          dispatched[i].site \in {"size", "tick"}
              => Cardinality(dispatched[i].Streams) <= maxBatchSize

\* C5 witness: on an open client a size-triggered dispatch carried maxBatchSize
\* batch units, each holding an entry, and the worker is back at its select.
C5_Witness ==
    /\ wpc = "select"
    /\ ~closed
    /\ \E i \in 1..Len(dispatched) :
          /\ dispatched[i].site = "size"
          /\ Cardinality(dispatched[i].Streams) = maxBatchSize
          /\ \A st \in dispatched[i].Streams : st.Entries # <<>>

\* A buffer the worker waits with is never older than maxBatchWait.
AgeBound == (wpc = "select" /\ b # EmptyBatch) => bufAge <= maxBatchWait

\* The step that takes a tick: a non-empty buffer is dispatched, and without a
\* dispatch the ticker's period restarts at once.
TickStep ==
    (wpc = "select" /\ tickPending /\ ~tickPending' /\ b' = b)
        => /\ b # EmptyBatch => (wpc' = "send" /\ dispatched' # dispatched)
           /\ b = EmptyBatch => timer' = 0

\* The step in which a dispatch of the loop returns: the buffer is empty and the
\* ticker's period restarts.
ReturnStep == (wpc = "send" /\ wpc' = "select") => (timer' = 0 /\ b' = EmptyBatch)

\* C6: while the client is open, a buffer the worker waits with is never older
\* than maxBatchWait; a tick taken with a non-empty buffer dispatches it; and every
\* dispatch of the loop and every tick taken restarts the ticker's period.
C6_TimerDispatch == []AgeBound /\ [][TickStep /\ ReturnStep]_vars

\* C6 witness: a buffer has waited a full maxBatchWait and the tick for it is due.
C6_Witness ==
    /\ wpc = "select"
    /\ b # EmptyBatch
    /\ bufAge = maxBatchWait
    /\ tickPending
    /\ \E i \in 1..Len(dispatched) : dispatched[i].site = "tick"

\* Entries e1, e2 of one producer, e1 submitted first: e2 is never sent without e1
\* having been sent in the same or an earlier dispatch, behind e1 if they share a unit.
InOrder(e1, e2) ==
    e2 \in SentEntries =>
        /\ e1 \in SentEntries
        /\ DispatchOf(e1) <= DispatchOf(e2)
        /\ \A o1 \in Occurrences(e1), o2 \in Occurrences(e2) :
              (o1[1] = o2[1] /\ o1[2] = o2[2]) => o1[3] < o2[3]

\* C7 (as amended): the entries of one producer are dispatched in submission order.
C7_ProducerOrder ==
    \A e1 \in accepted, e2 \in accepted :
        (e1.p = e2.p /\ e1.ts < e2.ts) => InOrder(e1, e2)

\* C7 witness: one dispatched unit holds two entries of the same producer.
C7_Witness ==
    \E i \in 1..Len(dispatched) : \E st \in dispatched[i].Streams :
        /\ Len(st.Entries) = 2
        /\ st.Entries[1].p = st.Entries[2].p

\* C7 (as claimed): in submission order, and whenever a dispatch completes every
\* entry submitted before that moment has been sent in it or in an earlier one.
C7_SentByCompletion ==
    []C7_ProducerOrder
    /\ [][(wpc = "send" /\ wpc' # "send" /\ fault' = "none") => accepted \subseteq SentEntries]_vars

\* An entry is passed to at most one dispatch.
AtMostOnce == \A e \in accepted : Cardinality(Occurrences(e)) <= 1

\* The step in which a dispatch returns: in the loop the batch is gone, and a
\* failure calls the configured error callback.
FailStep ==
    (wpc = "send" /\ wpc' # "send" /\ fault' = "none")
        => /\ wpc' = "select" => b' = EmptyBatch
           /\ (err' /\ errCallback) => errCalls' # errCalls

\* C8: an entry is passed to at most one dispatch, the batch of a dispatch is
\* dropped when the dispatch returns, and a failed dispatch calls the configured
\* error callback in the same step.
C8_DropOnFailure == []AtMostOnce /\ [][FailStep]_vars

\* C8 witness: a dispatch carrying an entry failed, the callback was called, the
\* buffer is empty again and a later entry has been accepted.
C8_Witness ==
    /\ wpc = "select"
    /\ err
    /\ errCallback
    /\ errCalls = 1
    /\ b = EmptyBatch
    /\ SentEntries # {}
    /\ entries # <<>>

\* C9: a Shutdown caller whose deadline has elapsed is not held in the wait for
\* the worker: it can return.
C9_ReturnsAtDeadline ==
    \A p \in Producers : (ppc[p] = "sd_wait" /\ ctxDone[p]) => ENABLED ShutdownWait(p)

\* The label map an entry is to be grouped under: the default labels and the
\* labels passed to Log.
WithDefaultLabels(lables) ==
    [k \in DOMAIN DefaultLabels \cup DOMAIN lables |->
        IF k \in DOMAIN lables THEN lables[k] ELSE DefaultLabels[k]]

\* C10: every entry is grouped and dispatched under the label string of its own
\* labels together with the default labels.
C10_DefaultLabelsApplied ==
    /\ \A l \in DOMAIN b : \A e \in Range(b[l]) :
          l = labelsMapToString(WithDefaultLabels(e.lables))
    /\ \A i \in 1..Len(dispatched) : \A st \in dispatched[i].Streams :
          \A e \in Range(st.Entries) :
              st.Labels = labelsMapToString(WithDefaultLabels(e.lables))

\* What a caller can observe of a handler's builder: its group path, labels and
\* metadata.
View(hp, h) ==
    [group |-> GroupOf(hp, h.lb), labels |-> h.lb.labels, metadata |-> h.lb.metadata]

\* The handler the step has just made.
Made == handlers'[Len(handlers')].lb

\* C11: deriving a handler (WithGroup, WithAttrs) or handling a record leaves the
\* group path, labels and metadata of every handler that already exists as they
\* were.
C11_DeriveLeavesOthers ==
    [][\A i \in 1..Len(handlers) : View(heap', handlers'[i]) = View(heap, handlers[i])]_vars

\* C12: with no classifier configured, WithAttrs of a leaf attribute outside
\* static_metadata stores a value of length at most 1024 as a label and leaves the
\* metadata alone, and stores a longer value as metadata and leaves the labels alone.
C12_LengthBoundary ==
    [][\A i \in Live : \A attrs \in {AttrFoo, AttrFooLong} :
          WithAttrs(i, attrs) =>
             IF StringLen(attrs[1].Value) <= MaxValueLen
             THEN /\ Made.metadata = handlers[i].lb.metadata
                  /\ \E k \in DOMAIN Made.labels : Made.labels[k] = attrs[1].Value
             ELSE /\ Made.labels = handlers[i].lb.labels
                  /\ \E k \in DOMAIN Made.metadata : Made.metadata[k] = attrs[1].Value]_vars

\* C13: with no classifier configured, WithAttrs of a leaf under a group named
\* static_metadata leaves the labels alone and stores the value as metadata under
\* the handler's group path and the leaf's name, without the static_metadata
\* segment (key f at the root), replacing what the key held.
C13_StaticMetadata ==
    [][\A i \in Live : \A attrs \in {AttrStaticF, AttrStaticFLong} :
          WithAttrs(i, attrs) =>
             LET leaf == attrs[1].Group[1]
                 key == Join(Append(GroupOf(heap, handlers[i].lb), leaf.Key),
                             handlers[i].lb.groupSplitter)
             IN  /\ Made.labels = handlers[i].lb.labels
                 /\ key \in DOMAIN Made.metadata
                 /\ Made.metadata[key] = leaf.Value
                 /\ DOMAIN Made.metadata = DOMAIN handlers[i].lb.metadata \cup {key}]_vars

\* The keys a list of attributes gets under a group path: the path's segments and
\* the leaf's name, joined by the separator.
RECURSIVE PathKeys(_, _, _)
PathKeys(attrs, path, sep) ==
    IF attrs = <<>> THEN {}
    ELSE (IF Head(attrs).Kind = "Group"
          THEN PathKeys(Head(attrs).Group, Append(path, Head(attrs).Key), sep)
          ELSE {Join(Append(path, Head(attrs).Key), sep)})
         \cup PathKeys(Tail(attrs), path, sep)

Keys(lb) == DOMAIN lb.labels \cup DOMAIN lb.metadata

\* C14: WithAttrs stores an attribute under the group path the handler was given
\* by its WithGroup calls (x_y_foo); Handle keeps every accumulated key and keys
\* the record's own attributes by the record's groups only (fizz_buzz, true),
\* next to the level key.
C14_KeysFromGroupPath ==
    [][/\ \A i \in Live :
             WithAttrs(i, AttrFoo) =>
                Keys(Made) = Keys(handlers[i].lb)
                     \cup PathKeys(AttrFoo, handlers[i].path, handlers[i].lb.groupSplitter)
       /\ \A i \in Live : \A record \in Records :
             Handle(i, record) =>
                DOMAIN logged'.labels \cup DOMAIN logged'.metadata =
                     Keys(handlers[i].lb)
                     \cup PathKeys(record.Attrs, <<>>, handlers[i].lb.groupSplitter)
                     \cup {handlers[i].levelKey}]_vars

\* The label maps of the entries of one batch unit.
UnitMaps(unit) == {unit[k].lables : k \in 1..Len(unit)}

\* Every unit holds the entries of one label map, and no two units hold entries
\* of the same label map.
GroupedByMap(units) ==
    /\ \A u \in units : Cardinality(UnitMaps(u)) <= 1
    /\ \A u1, u2 \in units : UnitMaps(u1) \cap UnitMaps(u2) # {} => u1 = u2

\* C15: the buffer and every dispatch hold one batch unit per label map, with all
\* their entries of that map and no entry of another map; two different label
\* maps have different canonical keys.
C15_OneUnitPerLabelMap ==
    /\ GroupedByMap({b[l] : l \in DOMAIN b})
    /\ \A i \in 1..Len(dispatched) :
          GroupedByMap({st.Entries : st \in dispatched[i].Streams})
    /\ \A p, q \in Producers :
          (pstream[p] # NoStream /\ pstream[q] # NoStream
             /\ pstream[p].Entries[1].lables # pstream[q].Entries[1].lables)
          => pstream[p].Labels # pstream[q].Labels

\* C16: while the client is open, a Log call that has reached its send on
\* c.entries eventually returns.
C16_LogReturns == \A p \in Producers : (ppc[p] = "log_send") ~> (ppc[p] = "idle")

\* C16 witness: a Log is blocked on the full c.entries while a dispatch carrying
\* an earlier entry is in flight.
C16_Witness ==
    /\ wpc = "send"
    /\ entries # <<>>
    /\ \E p \in Producers : ppc[p] = "log_send"

\* The step is a dispatch issued by the drain (the final one).
FinalIssued == dispatched' = Append(dispatched, [Streams |-> PushRequest(b), site |-> "final"])

\* While draining the worker only consumes c.entries or issues the final dispatch.
DrainStep ==
    (wpc = "drain" /\ wpc' # "dead")
        => /\ dispatched' # dispatched => (FinalIssued /\ entries = <<>>)
           /\ wpc' \in {"drain", "send"}

\* The step in which the final dispatch returns signals completion.
CompletionStep ==
    (wpc = "send" /\ sendSite = "final" /\ wpc' # "send") => (wpc' = "done" /\ waitGroup' = 0)

\* Nothing is dispatched once the worker is done.
ClosedStep == wpc = "done" => (dispatched' = dispatched /\ wpc' \in {"done", "dead"})

\* C17: once draining, the worker consumes c.entries without a size- or
\* timer-triggered dispatch, issues one final dispatch when the queue is exhausted,
\* signals completion when that dispatch returns, and dispatches nothing afterwards.
C17_DrainCompletes == [][DrainStep /\ CompletionStep /\ ClosedStep]_vars

\* C18: while a transport call is in flight the live map is already a fresh
\* empty one and the worker can accumulate a queued entry into it.
C18_SwapBeforeSend ==
    wpc = "send" =>
        /\ b = EmptyBatch
        /\ entries # <<>> => ENABLED WorkerRecvEntry

\* C19: the error callback is called exactly in the steps in which a dispatch
\* returns a failure: never in a loop iteration that dispatched nothing, never
\* for a dispatch that succeeded.
C19_CallbackOncePerFailure ==
    [][fault' = "none" =>
          (errCalls' # errCalls <=> (errCallback /\ wpc = "send" /\ wpc' # "send" /\ err'))]_vars

\* C20: a client without an error callback never faults on a failed dispatch.
C20_NilCallbackTolerated == ~errCallback => fault # "run: call of nil errCallback"

\* C21: no Flush and no Shutdown call, made after or during another Shutdown,
\* panics with a send on a closed channel or the close of a closed channel.
C21_LifecycleCallsHarmless ==
    fault \notin {"Flush: send on closed channel",
                  "Shutdown: send on closed channel",
                  "Shutdown: close of closed channel"}

====
